---- MODULE Spec2Model ----
(***************************************************************************)
(* CreatureBox web backend (src/src/web/app.py).                           *)
(*                                                                         *)
(*   SpecCamera : the global camera handle, camera_lock, init_camera,      *)
(*                release_camera and generate_camera_frames, run by        *)
(*                concurrent request threads (app.run(threaded=True)).     *)
(*   SpecStatus : system_status and its four sub-probes.                   *)
(*   SpecConfig : the settings files and their read / write functions.     *)
(***************************************************************************)
EXTENDS Integers, Sequences, FiniteSets, TLC

VARIABLES
    \* ---- camera (app.py 68-69, 546-625)
    cv2Available,   \* CV2_AVAILABLE, fixed at import time
    camera,         \* the global `camera`: None, or the id of a VideoCapture object
    camera_lock,    \* NoThread, or the thread that holds camera_lock
    opened,         \* VideoCapture objects whose device session is open
    pc,             \* per thread: position in generate_camera_frames
    newHandle,      \* per thread: the object cv2.VideoCapture(0) just built
    streams,        \* streams started so far, by all threads
    frames,         \* per thread: JPEG items yielded by the current stream
    diags,          \* per thread: text/plain items yielded by the current stream
    initResult,     \* per thread: "none", "ok" (True), "fail" (False)
    foundOpen,      \* per thread: init_camera found a handle whose session is open
    myHandle,       \* per thread: the object this stream's init_camera built
    releaseRan,     \* per thread: release_camera returned for this stream
    endCause,       \* per thread: why the frame loop was left
    \* ---- settings files (app.py 60-62, 72-148)
    ctlFile,        \* text of CONTROLS_FILE: a sequence of characters
    csvFile,        \* rows of a settings CSV file, the header row first
    request,        \* the update mapping the write requests of this run carry
    lastWrite,      \* the last write_* call: format, file before, updates, result
    lastRead,       \* the last read_* call: format and the mapping returned
    nOps,           \* settings operations performed
    \* ---- status snapshot (app.py 169-402, 633-646)
    stPc,           \* position in system_status
    probeIn,        \* what each sub-probe met in its environment, once it ran
    photos,         \* the files under PHOTOS_DIR, in os.walk order
    system_info,    \* locals of system_status; Unset before their assignment
    power_info,
    storage_info,
    schedule_info,
    response,       \* the body system_status returned
    \* ---- request handlers and run_script (app.py 150-167, 655-713, 866-889)
    lastRun,        \* the last run_script call: what the subprocess did, the pair returned
    reply,          \* the last handler's response: status, and the operations that failed
    lastToggle,     \* lightsOn of the last two consecutive toggle_lights responses
    \* ---- concurrent settings writers (app.py 85-148)
    writers         \* per thread: position in write_*, the rows it read, its update

camVars == <<cv2Available, camera, camera_lock, opened, pc, newHandle, streams,
             frames, diags, initResult, foundOpen, myHandle, releaseRan, endCause>>

cfgVars == <<ctlFile, csvFile, request, lastWrite, lastRead, nOps>>

stVars == <<stPc, probeIn, photos, system_info, power_info, storage_info,
            schedule_info, response>>

hVars == <<lastRun, reply, lastToggle>>

wVars == <<writers>>

vars == <<camVars, cfgVars, stVars, hVars, wVars>>

----------------------------------------------------------------------------
(* Bounds *)
NThreads   == 2    \* concurrent request threads
MaxStreams == 2    \* streams started in one run, by all threads together
MaxFrames  == 2    \* frames one stream emits before its capture fails or it is closed
MaxLines   == 2    \* lines of the control file in the initial state
MaxRows    == 2    \* data rows of the CSV file in the initial state
MaxUpdKeys == 1    \* keys of one update mapping
MaxOps     == 2    \* settings operations in one run

Threads  == 1..NThreads
None     == 0      \* Python's None as the value of `camera`
NoThread == 0      \* camera_lock not held

----------------------------------------------------------------------------
(* Camera: helpers *)

\* Binding the global `camera` to another value drops the last reference to the
\* object it named (the code keeps no other reference); CPython then destroys the
\* VideoCapture, whose destructor closes its device session.
Unreferenced(old, new) == IF old # new THEN {old} ELSE {}

\* The `with camera_lock:` block is left (normally, by break/return, or by an
\* exception): the lock is released.
Unlock == camera_lock' = NoThread

\* camera.release() on a VideoCapture object: its session is closed.
DeviceRelease(h) == opened \ {h}

\* The identity of a newly built VideoCapture object: any identity that no
\* variable holds (an object's identity is reused once the object is gone).
HandlesInUse == {camera} \cup opened \cup {newHandle[t] : t \in Threads}
                    \cup {myHandle[t] : t \in Threads}
FreshHandle == CHOOSE h \in 1..(2 * NThreads + 2) : h \notin HandlesInUse

CamGhostUnchanged == UNCHANGED <<streams, frames, diags, initResult, foundOpen,
                                 myHandle, releaseRan, endCause>>

----------------------------------------------------------------------------
(* generate_camera_frames: start (lines 586-600) *)

\* Where an exception raised inside init_camera's try block goes: its own
\* except clause (line 567).
InitExceptionTarget == "i_exc"

\* GeneratorExit leaving the generator without its cleanup.
CloseTargetNoFinally == "done"

\* Where the frame loop goes when it is left through GeneratorExit (the consumer
\* closed the generator): the finally clause, i.e. release_camera (line 624).
CloseTarget == "r_lock"

Start(t) ==
    /\ pc[t] \in {"idle", "done"}
    /\ UNCHANGED <<cfgVars, stVars, hVars, wVars>>
    /\ streams < MaxStreams
    /\ streams' = streams + 1
    /\ frames' = [frames EXCEPT ![t] = 0]
    /\ initResult' = [initResult EXCEPT ![t] = "none"]
    /\ foundOpen' = [foundOpen EXCEPT ![t] = FALSE]
    /\ myHandle' = [myHandle EXCEPT ![t] = None]
    /\ releaseRan' = [releaseRan EXCEPT ![t] = FALSE]
    /\ endCause' = [endCause EXCEPT ![t] = "none"]
    /\ IF ~cv2Available
       THEN \* line 590-593: yield the "OpenCV not installed" item
            /\ pc' = [pc EXCEPT ![t] = "y_diag"]
            /\ diags' = [diags EXCEPT ![t] = 1]
       ELSE \* line 596: init_camera(), line 549 passed
            /\ pc' = [pc EXCEPT ![t] = "i_lock"]
            /\ diags' = [diags EXCEPT ![t] = 0]
    /\ UNCHANGED <<cv2Available, camera, camera_lock, opened, newHandle>>

\* lines 594 / 600: the generator, suspended at the yield of its diagnostic item,
\* is resumed or closed by the consumer; in both cases it returns.
DiagReturn(t) ==
    /\ pc[t] = "y_diag"
    /\ UNCHANGED <<cfgVars, stVars, hVars, wVars>>
    /\ pc' = [pc EXCEPT ![t] = "done"]
    /\ UNCHANGED <<cv2Available, camera, camera_lock, opened, newHandle>>
    /\ CamGhostUnchanged

----------------------------------------------------------------------------
(* init_camera (lines 546-570) *)

\* An exception inside `with camera_lock:` of init_camera: the lock is released
\* and control goes to the except clause.
InitRaise(t) ==
    /\ Unlock
    /\ pc' = [pc EXCEPT ![t] = InitExceptionTarget]

\* init_camera returned False: generate_camera_frames yields its
\* "Failed to initialize" item (lines 596-599).
InitFailed(t) ==
    /\ initResult' = [initResult EXCEPT ![t] = "fail"]
    /\ diags' = [diags EXCEPT ![t] = @ + 1]
    /\ pc' = [pc EXCEPT ![t] = "y_diag"]

\* line 553
InitAcquire(t) ==
    /\ pc[t] = "i_lock"
    /\ UNCHANGED <<cfgVars, stVars, hVars, wVars>>
    /\ camera_lock = NoThread
    /\ camera_lock' = t
    /\ pc' = [pc EXCEPT ![t] = "i_chk"]
    /\ UNCHANGED <<cv2Available, camera, opened, newHandle>>
    /\ CamGhostUnchanged

\* line 554 without line 555: the handle found is not released.
InitCheckOldNoRelease(t) ==
    /\ pc[t] = "i_chk"
    /\ UNCHANGED <<cfgVars, stVars, hVars, wVars>>
    /\ foundOpen' = [foundOpen EXCEPT ![t] = (camera \in opened)]
    /\ pc' = [pc EXCEPT ![t] = "i_new"]
    /\ UNCHANGED <<cv2Available, camera, camera_lock, opened, newHandle,
                   streams, frames, diags, initResult,
                   myHandle, releaseRan, endCause>>

\* line 554
InitCheckOld(t) ==
    /\ pc[t] = "i_chk"
    /\ UNCHANGED <<cfgVars, stVars, hVars, wVars>>
    /\ foundOpen' = [foundOpen EXCEPT ![t] = (camera \in opened)]
    /\ pc' = [pc EXCEPT ![t] = IF camera # None THEN "i_rel" ELSE "i_new"]
    /\ UNCHANGED <<cv2Available, camera, camera_lock, opened, newHandle,
                   streams, frames, diags, initResult,
                   myHandle, releaseRan, endCause>>

\* line 555: camera.release() on the handle found open. The global is read
\* again: if the except clause of another thread's init_camera set it to None in
\* between, the call raises AttributeError.
InitReleaseOld(t) ==
    /\ pc[t] = "i_rel"
    /\ UNCHANGED <<cfgVars, stVars, hVars, wVars>>
    /\ IF camera = None
       THEN /\ InitRaise(t)
            /\ UNCHANGED opened
       ELSE /\ opened' = DeviceRelease(camera)
            /\ pc' = [pc EXCEPT ![t] = "i_new"]
            /\ UNCHANGED camera_lock
    /\ UNCHANGED <<cv2Available, camera, newHandle, streams, frames,
                   diags, initResult, foundOpen, myHandle, releaseRan,
                   endCause>>

\* line 557, right-hand side: cv2.VideoCapture(0) builds a new object, whose
\* device session is open or not, or raises.
InitConstruct(t) ==
    /\ pc[t] = "i_new"
    /\ UNCHANGED <<cfgVars, stVars, hVars, wVars>>
    /\ \E outcome \in {"opened", "not_opened", "raise"} :
         IF outcome = "raise"
         THEN /\ InitRaise(t)
              /\ UNCHANGED <<opened, newHandle, myHandle>>
         ELSE /\ newHandle' = [newHandle EXCEPT ![t] = FreshHandle]
              /\ myHandle' = [myHandle EXCEPT ![t] = FreshHandle]
              /\ opened' = IF outcome = "opened" THEN opened \cup {FreshHandle} ELSE opened
              /\ pc' = [pc EXCEPT ![t] = "i_store"]
              /\ UNCHANGED camera_lock
    /\ UNCHANGED <<cv2Available, camera, streams, frames, diags, initResult,
                   foundOpen, releaseRan, endCause>>

\* line 557, the assignment to the global.
InitStore(t) ==
    /\ pc[t] = "i_store"
    /\ UNCHANGED <<cfgVars, stVars, hVars, wVars>>
    /\ camera' = newHandle[t]
    /\ opened' = opened \ Unreferenced(camera, newHandle[t])
    /\ newHandle' = [newHandle EXCEPT ![t] = None]
    /\ pc' = [pc EXCEPT ![t] = "i_set"]
    /\ UNCHANGED <<cv2Available, camera_lock>>
    /\ CamGhostUnchanged

\* lines 558-559: camera.set(...) twice, each reading the global.
InitSet(t) ==
    /\ pc[t] = "i_set"
    /\ UNCHANGED <<cfgVars, stVars, hVars, wVars>>
    /\ IF camera = None
       THEN InitRaise(t)
       ELSE /\ pc' = [pc EXCEPT ![t] = "i_isopen"]
            /\ UNCHANGED camera_lock
    /\ UNCHANGED <<cv2Available, camera, opened, newHandle, streams,
                   frames, diags, initResult, foundOpen, myHandle,
                   releaseRan, endCause>>

\* line 563 keeping the handle that failed to open.
NotOpenedHandleKept == camera

\* line 563: the value the global gets when the device did not open.
NotOpenedHandle == None

\* lines 561-566
InitIsOpened(t) ==
    /\ pc[t] = "i_isopen"
    /\ UNCHANGED <<cfgVars, stVars, hVars, wVars>>
    /\ IF camera = None
       THEN /\ InitRaise(t)
            /\ UNCHANGED <<camera, opened, initResult, diags>>
       ELSE IF camera \notin opened
       THEN \* lines 562-564: camera = None; return False
            /\ camera' = NotOpenedHandle
            /\ opened' = opened \ Unreferenced(camera, NotOpenedHandle)
            /\ Unlock
            /\ InitFailed(t)
       ELSE \* line 566: return True; line 602: enter the loop
            /\ Unlock
            /\ initResult' = [initResult EXCEPT ![t] = "ok"]
            /\ pc' = [pc EXCEPT ![t] = "l_lock"]
            /\ UNCHANGED <<camera, opened, diags>>
    /\ UNCHANGED <<cv2Available, newHandle, streams, frames,
                   foundOpen, myHandle, releaseRan, endCause>>

\* lines 567-570: the except clause; it runs after the with block was left, so
\* it writes the global without holding camera_lock.
InitExcept(t) ==
    /\ pc[t] = "i_exc"
    /\ UNCHANGED <<cfgVars, stVars, hVars, wVars>>
    /\ camera' = None
    /\ opened' = opened \ (Unreferenced(camera, None) \cup {newHandle[t]})
    /\ newHandle' = [newHandle EXCEPT ![t] = None]
    /\ InitFailed(t)
    /\ UNCHANGED <<cv2Available, camera_lock, streams, frames,
                   foundOpen, myHandle, releaseRan, endCause>>

----------------------------------------------------------------------------
(* generate_camera_frames: the frame loop (lines 602-623) *)

\* The loop is left (break, or an exception caught at line 622): the with block
\* releases the lock and the finally clause runs.
LeaveLoop(t, cause) ==
    /\ Unlock
    /\ endCause' = [endCause EXCEPT ![t] = cause]
    /\ pc' = [pc EXCEPT ![t] = "r_lock"]

\* line 604
LoopAcquire(t) ==
    /\ pc[t] = "l_lock"
    /\ UNCHANGED <<cfgVars, stVars, hVars, wVars>>
    /\ camera_lock = NoThread
    /\ camera_lock' = t
    /\ pc' = [pc EXCEPT ![t] = "l_chk"]
    /\ UNCHANGED <<cv2Available, camera, opened, newHandle>>
    /\ CamGhostUnchanged

\* lines 605-606
LoopCheck(t) ==
    /\ pc[t] = "l_chk"
    /\ UNCHANGED <<cfgVars, stVars, hVars, wVars>>
    /\ IF camera = None
       THEN LeaveLoop(t, "no_handle")
       ELSE /\ pc' = [pc EXCEPT ![t] = "l_read"]
            /\ UNCHANGED <<camera_lock, endCause>>
    /\ UNCHANGED <<cv2Available, camera, opened, newHandle, streams,
                   frames, diags, initResult, foundOpen,
                   myHandle, releaseRan>>

\* lines 608-610: camera.read(). A released object reports failure.
LoopRead(t) ==
    /\ pc[t] = "l_read"
    /\ UNCHANGED <<cfgVars, stVars, hVars, wVars>>
    /\ IF camera = None
       THEN LeaveLoop(t, "exception")
       ELSE \E outcome \in {"ok", "fail", "raise"} :
              IF outcome = "ok"
              THEN /\ camera \in opened
                   /\ frames[t] < MaxFrames
                   /\ pc' = [pc EXCEPT ![t] = "l_enc"]
                   /\ UNCHANGED <<camera_lock, endCause>>
              ELSE LeaveLoop(t, IF outcome = "fail" THEN "read_failed" ELSE "exception")
    /\ UNCHANGED <<cv2Available, camera, opened, newHandle, streams,
                   frames, diags, initResult, foundOpen,
                   myHandle, releaseRan>>

\* lines 613-618: encode, then yield the frame. The generator is suspended
\* inside the with block.
LoopEncodeYield(t) ==
    /\ pc[t] = "l_enc"
    /\ UNCHANGED <<cfgVars, stVars, hVars, wVars>>
    /\ \E outcome \in {"ok", "raise"} :
         IF outcome = "ok"
         THEN /\ frames' = [frames EXCEPT ![t] = @ + 1]
              /\ pc' = [pc EXCEPT ![t] = "l_yield"]
              /\ UNCHANGED <<camera_lock, endCause>>
         ELSE /\ LeaveLoop(t, "exception")
              /\ UNCHANGED frames
    /\ UNCHANGED <<cv2Available, camera, opened, newHandle, streams,
                   diags, initResult, foundOpen, myHandle,
                   releaseRan>>

\* The consumer asks for the next item: the generator resumes after the yield.
ConsumerNext(t) ==
    /\ pc[t] = "l_yield"
    /\ UNCHANGED <<cfgVars, stVars, hVars, wVars>>
    /\ pc' = [pc EXCEPT ![t] = "l_sleep"]
    /\ UNCHANGED <<cv2Available, camera, camera_lock, opened, newHandle>>
    /\ CamGhostUnchanged

\* The consumer closes the generator: GeneratorExit is raised at the yield. It
\* is no Exception, so line 622 does not catch it; the with block and the
\* finally clause still run.
ConsumerClose(t) ==
    /\ pc[t] = "l_yield"
    /\ UNCHANGED <<cfgVars, stVars, hVars, wVars>>
    /\ Unlock
    /\ endCause' = [endCause EXCEPT ![t] = "closed"]
    /\ pc' = [pc EXCEPT ![t] = CloseTarget]
    /\ UNCHANGED <<cv2Available, camera, opened, newHandle, streams,
                   frames, diags, initResult, foundOpen,
                   myHandle, releaseRan>>

\* line 621, then the end of the with block.
LoopSleep(t) ==
    /\ pc[t] = "l_sleep"
    /\ UNCHANGED <<cfgVars, stVars, hVars, wVars>>
    /\ Unlock
    /\ pc' = [pc EXCEPT ![t] = "l_lock"]
    /\ UNCHANGED <<cv2Available, camera, opened, newHandle>>
    /\ CamGhostUnchanged

----------------------------------------------------------------------------
(* release_camera (lines 572-584), called from the finally clause (line 625) *)

ReleaseReturn(t) ==
    /\ Unlock
    /\ releaseRan' = [releaseRan EXCEPT ![t] = TRUE]
    /\ pc' = [pc EXCEPT ![t] = "done"]

\* line 579
ReleaseAcquire(t) ==
    /\ pc[t] = "r_lock"
    /\ UNCHANGED <<cfgVars, stVars, hVars, wVars>>
    /\ camera_lock = NoThread
    /\ camera_lock' = t
    /\ pc' = [pc EXCEPT ![t] = "r_chk"]
    /\ UNCHANGED <<cv2Available, camera, opened, newHandle>>
    /\ CamGhostUnchanged

\* line 580
ReleaseCheck(t) ==
    /\ pc[t] = "r_chk"
    /\ UNCHANGED <<cfgVars, stVars, hVars, wVars>>
    /\ IF camera = None
       THEN ReleaseReturn(t)
       ELSE /\ pc' = [pc EXCEPT ![t] = "r_rel"]
            /\ UNCHANGED <<camera_lock, releaseRan>>
    /\ UNCHANGED <<cv2Available, camera, opened, newHandle, streams,
                   frames, diags, initResult, foundOpen,
                   myHandle, endCause>>

\* line 581: camera.release(); AttributeError (the global became None) is
\* caught at line 583.
ReleaseDevice(t) ==
    /\ pc[t] = "r_rel"
    /\ UNCHANGED <<cfgVars, stVars, hVars, wVars>>
    /\ IF camera = None
       THEN /\ ReleaseReturn(t)
            /\ UNCHANGED opened
       ELSE /\ opened' = DeviceRelease(camera)
            /\ pc' = [pc EXCEPT ![t] = "r_none"]
            /\ UNCHANGED <<camera_lock, releaseRan>>
    /\ UNCHANGED <<cv2Available, camera, newHandle, streams, frames,
                   diags, initResult, foundOpen, myHandle,
                   endCause>>

\* line 582
ReleaseAssign(t) ==
    /\ pc[t] = "r_none"
    /\ UNCHANGED <<cfgVars, stVars, hVars, wVars>>
    /\ camera' = None
    /\ opened' = opened \ Unreferenced(camera, None)
    /\ ReleaseReturn(t)
    /\ UNCHANGED <<cv2Available, newHandle, streams, frames, diags,
                   initResult, foundOpen, myHandle, endCause>>

----------------------------------------------------------------------------
(* Camera: initial state and steps *)

CamInit ==
    /\ cv2Available \in BOOLEAN
    /\ camera = None
    /\ camera_lock = NoThread
    /\ opened = {}
    /\ pc = [t \in Threads |-> "idle"]
    /\ newHandle = [t \in Threads |-> None]
    /\ streams = 0
    /\ frames = [t \in Threads |-> 0]
    /\ diags = [t \in Threads |-> 0]
    /\ initResult = [t \in Threads |-> "none"]
    /\ foundOpen = [t \in Threads |-> FALSE]
    /\ myHandle = [t \in Threads |-> None]
    /\ releaseRan = [t \in Threads |-> FALSE]
    /\ endCause = [t \in Threads |-> "none"]

CamNext ==
    \E t \in Threads :
        \/ Start(t)
        \/ DiagReturn(t)
        \/ InitAcquire(t)
        \/ InitCheckOld(t)
        \/ InitReleaseOld(t)
        \/ InitConstruct(t)
        \/ InitStore(t)
        \/ InitSet(t)
        \/ InitIsOpened(t)
        \/ InitExcept(t)
        \/ LoopAcquire(t)
        \/ LoopCheck(t)
        \/ LoopRead(t)
        \/ LoopEncodeYield(t)
        \/ ConsumerNext(t)
        \/ ConsumerClose(t)
        \/ LoopSleep(t)
        \/ ReleaseAcquire(t)
        \/ ReleaseCheck(t)
        \/ ReleaseDevice(t)
        \/ ReleaseAssign(t)

----------------------------------------------------------------------------
(* Settings files: text helpers *)

\* A text is a sequence of characters. The characters the code treats specially
\* are "=", the newline and the blank; any other element stands for a non-empty
\* run of ordinary characters.
NL == "\n"
Whitespace == {" ", NL}

RECURSIVE LStrip(_)
LStrip(s) == IF s # <<>> /\ Head(s) \in Whitespace THEN LStrip(Tail(s)) ELSE s

RECURSIVE RStrip(_)
RStrip(s) == IF s # <<>> /\ s[Len(s)] \in Whitespace
             THEN RStrip(SubSeq(s, 1, Len(s) - 1)) ELSE s

\* str.strip()
Strip(s) == RStrip(LStrip(s))

\* str.split(sep): the pieces between the separators, <<"">> for the empty text.
RECURSIVE Split(_, _)
Split(s, sep) ==
    IF \E i \in 1..Len(s) : s[i] = sep
    THEN LET i == CHOOSE j \in 1..Len(s) : s[j] = sep /\ \A k \in 1..(j - 1) : s[k] # sep
         IN  <<SubSeq(s, 1, i - 1)>> \o Split(SubSeq(s, i + 1, Len(s)), sep)
    ELSE <<s>>

\* `for line in file`: the lines of a text, each without its newline (the code
\* strips every line it reads).
FileLines(text) ==
    LET parts == Split(text, NL)
    IN  IF parts[Len(parts)] = <<>> THEN SubSeq(parts, 1, Len(parts) - 1) ELSE parts

RECURSIVE Concat(_)
Concat(ss) == IF ss = <<>> THEN <<>> ELSE Head(ss) \o Concat(Tail(ss))

\* file.write(f"{line}\n") for every line
WriteLines(lines) == Concat([i \in 1..Len(lines) |-> lines[i] \o <<NL>>])

\* A Python dict as a function; the empty dict.
EmptyDict == [k \in {} |-> <<>>]

\* dict.get(key, default)
Get(d, key, default) == IF key \in DOMAIN d THEN d[key] ELSE default

\* The dict a loop of assignments d[keys[i]] = vals[i], i = 1..n, builds: for
\* a key assigned twice the last assignment stands.
DictOf(keys, vals) ==
    [k \in {keys[i] : i \in 1..Len(keys)} |->
        vals[CHOOSE i \in 1..Len(keys) :
                keys[i] = k /\ \A j \in (i + 1)..Len(keys) : keys[j] # k]]

----------------------------------------------------------------------------
(* read_control_values / write_control_values (lines 112-148) *)

\* line 118 / 136: `key, value = line.split('=')` raises ValueError unless the
\* line has exactly one "=".
Unpacks(line) == Len(Split(line, "=")) = 2

\* A reader that skips the lines it cannot unpack.
read_control_values_partial(text) ==
    LET lines == [i \in 1..Len(FileLines(text)) |-> Strip(FileLines(text)[i])]
        good  == SelectSeq(lines, Unpacks)
    IN  DictOf([i \in 1..Len(good) |-> Split(good[i], "=")[1]],
               [i \in 1..Len(good) |-> Split(good[i], "=")[2]])

\* lines 112-123: the mapping returned; {} when any line raised.
read_control_values(text) ==
    LET lines == [i \in 1..Len(FileLines(text)) |-> Strip(FileLines(text)[i])]
    IN  IF \E i \in 1..Len(lines) : ~Unpacks(lines[i])
        THEN EmptyDict
        ELSE DictOf([i \in 1..Len(lines) |-> Split(lines[i], "=")[1]],
                    [i \in 1..Len(lines) |-> Split(lines[i], "=")[2]])

\* lines 125-148: [ok |-> the value returned, text |-> the file afterwards].
\* The file is opened for writing only after every line was unpacked.
write_control_values(text, values) ==
    LET existing == [i \in 1..Len(FileLines(text)) |-> Strip(FileLines(text)[i])]
        updated  == [i \in 1..Len(existing) |->
                        LET key == Split(existing[i], "=")[1]
                        IN  IF key \in DOMAIN values
                            THEN key \o <<"=">> \o values[key]
                            ELSE existing[i]]
    IN  IF \E i \in 1..Len(existing) : ~Unpacks(existing[i])
        THEN [ok |-> FALSE, text |-> text]
        ELSE [ok |-> TRUE, text |-> WriteLines(updated)]

----------------------------------------------------------------------------
(* read_csv_settings / write_csv_settings (lines 72-110) *)

\* A CSV file is a sequence of rows, a row a sequence of cells, a blank line
\* the empty row. The csv module quotes and unquotes cells losslessly, so a
\* cell is one opaque value.
NoneCell == "<None>"     \* restval: the value of a field the row is too short for
RestKey  == "<restkey>"  \* restkey (None): the key of the cells beyond the header
RestCell == "<rest>"     \* the list stored under restkey

NonBlank(row) == row # <<>>

\* lines 76 / 90: the file is opened for reading in text mode without
\* newline='', so a carriage return inside a quoted cell reaches the csv reader
\* as a newline.
UniversalNewlines(cell) == IF cell = "x\ry" THEN "x\ny" ELSE cell

\* csv.DictReader: the first non-blank row is the header (None: no header).
HasHeader(rows) == SelectSeq(rows, NonBlank) # <<>>
FieldNames(rows) == Head(SelectSeq(rows, NonBlank))
DataRows(rows) == Tail(SelectSeq(rows, NonBlank))

\* csv.DictReader.__next__: the dict of one row.
RowDict(fields, row) ==
    [k \in {fields[i] : i \in 1..Len(fields)}
            \cup (IF Len(row) > Len(fields) THEN {RestKey} ELSE {}) |->
        IF k = RestKey /\ Len(row) > Len(fields)
        THEN RestCell
        ELSE LET i == CHOOSE j \in 1..Len(fields) :
                        fields[j] = k /\ \A m \in (j + 1)..Len(fields) : fields[m] # k
             IN  IF i <= Len(row) THEN UniversalNewlines(row[i]) ELSE NoneCell]

\* lines 72-83
read_csv_settings(rows) ==
    IF ~HasHeader(rows) THEN EmptyDict
    ELSE LET fields == FieldNames(rows)
             dicts  == [i \in 1..Len(DataRows(rows)) |-> RowDict(fields, DataRows(rows)[i])]
         IN  IF \E i \in 1..Len(dicts) : ~({"SETTING", "VALUE"} \subseteq DOMAIN dicts[i])
             THEN EmptyDict
             ELSE DictOf([i \in 1..Len(dicts) |-> dicts[i]["SETTING"]],
                         [i \in 1..Len(dicts) |-> dicts[i]["VALUE"]])

\* csv.DictWriter._dict_to_list: a dict with a key outside fieldnames raises.
Writable(fields, d) == DOMAIN d \subseteq {fields[i] : i \in 1..Len(fields)}

\* csv.DictWriter.writerow: the cells written, None as the empty cell.
WrittenRow(fields, d) ==
    [i \in 1..Len(fields) |-> IF d[fields[i]] = NoneCell THEN "" ELSE d[fields[i]]]

\* lines 85-110: [ok |-> the value returned, rows |-> the file afterwards].
\* open(file_path, 'w') truncates the file before the header and the rows are
\* written, and writerows stops at the first row it cannot write.
write_csv_settings(rows, settings) ==
    IF ~HasHeader(rows)
    THEN \* DictWriter(fieldnames=None).writeheader() raises, file truncated
         [ok |-> FALSE, rows |-> <<>>]
    ELSE LET fields   == FieldNames(rows)
             existing == [i \in 1..Len(DataRows(rows)) |-> RowDict(fields, DataRows(rows)[i])]
             updated  == [i \in 1..Len(existing) |->
                            IF existing[i]["SETTING"] \in DOMAIN settings
                            THEN [k \in DOMAIN existing[i] \cup {"VALUE"} |->
                                    IF k = "VALUE" THEN settings[existing[i]["SETTING"]]
                                    ELSE existing[i][k]]
                            ELSE existing[i]]
             firstBad == IF \E i \in 1..Len(updated) : ~Writable(fields, updated[i])
                         THEN CHOOSE i \in 1..Len(updated) :
                                /\ ~Writable(fields, updated[i])
                                /\ \A j \in 1..(i - 1) : Writable(fields, updated[j])
                         ELSE Len(updated) + 1
         IN  IF \E i \in 1..Len(existing) : "SETTING" \notin DOMAIN existing[i]
             THEN \* KeyError at line 98, before the file is opened for writing
                  [ok |-> FALSE, rows |-> rows]
             ELSE [ok   |-> firstBad > Len(updated),
                   rows |-> <<fields>> \o
                            [i \in 1..(firstBad - 1) |-> WrittenRow(fields, updated[i])]]

----------------------------------------------------------------------------
(* Settings files: initial contents, requests and steps *)

SeqsUpTo(S, n) == UNION {[1..k -> S] : k \in 0..n}

\* Lines a control file may hold: well formed, padded with blanks, without
\* "=", with two "=", blank, with an empty value.
CtlLines ==
    { <<"name", "=", "box">>, <<"runtime", "=", "60">>, <<"lights_on", "=", "true">>,
      <<" ", "name", "=", "box", " ">>, <<"garbage">>, <<"name", "=", "a", "=", "b">>,
      <<>>, <<"runtime", "=">> }

\* The control files of the initial state: every line ends with a newline,
\* except possibly the last one.
CtlFiles ==
    LET full == {WriteLines(ls) : ls \in SeqsUpTo(CtlLines, MaxLines)}
    IN  full \cup {SubSeq(t, 1, Len(t) - 1) : t \in full \ {<<>>}}

CtlKeys == {<<"name">>, <<"runtime">>, <<"zz">>}
CtlValues == { <<"9">>, <<>>, <<"x", "=", "y">>, <<"x", NL, "y">>, <<"x", " ">> }

\* The update mappings a request may carry.
Updates(keys, values) ==
    UNION {[K -> values] : K \in {K \in SUBSET keys : Cardinality(K) <= MaxUpdKeys}}

CsvHeaders == { <<"SETTING", "VALUE">>, <<"SETTING", "VALUE", "NOTE">>,
                <<"NAME", "VALUE">>, <<"SETTING">> }
CsvRows == { <<"interval", "30">>, <<"mode", "auto">>, <<"runtime", "60", "n">>,
             <<"interval">>, <<>> }
CsvFiles ==
    {<<>>} \cup {<<h>> \o rs : h \in CsvHeaders, rs \in SeqsUpTo(CsvRows, MaxRows)}

CsvKeys == {"interval", "runtime", "zz"}
CsvValues == {"60", "x\ny", "x\ry"}

DefaultCtl == WriteLines(<<<<"name", "=", "box">>, <<"lights_on", "=", "false">>>>)
DefaultCsv == << <<"SETTING", "VALUE">>, <<"runtime", "60">> >>

NoRequest == [fmt |-> "none"]
NoWrite == [fmt |-> "none"]
NoRead  == [fmt |-> "none"]

\* The file a run works on and the update mapping its write requests carry.
CfgInit ==
    /\ \/ /\ ctlFile \in CtlFiles
          /\ csvFile = DefaultCsv
          /\ request \in {[fmt |-> "ctl", updates |-> u] : u \in Updates(CtlKeys, CtlValues)}
       \/ /\ ctlFile = DefaultCtl
          /\ csvFile \in CsvFiles
          /\ request \in {[fmt |-> "csv", updates |-> u] : u \in Updates(CsvKeys, CsvValues)}
    /\ lastWrite = NoWrite
    /\ lastRead = NoRead
    /\ nOps = 0

\* A request that calls write_control_values(CONTROLS_FILE, upd).
WriteControl ==
    /\ nOps < MaxOps
    /\ UNCHANGED <<camVars, stVars, hVars, wVars>>
    /\ request.fmt = "ctl"
    /\ LET r == write_control_values(ctlFile, request.updates)
       IN  /\ ctlFile' = r.text
           /\ lastWrite' = [fmt |-> "ctl", before |-> ctlFile,
                            updates |-> request.updates, ok |-> r.ok]
    /\ lastRead' = NoRead
    /\ nOps' = nOps + 1
    /\ UNCHANGED <<csvFile, request>>

\* A request that calls read_control_values(CONTROLS_FILE).
ReadControl ==
    /\ nOps < MaxOps
    /\ UNCHANGED <<camVars, stVars, hVars, wVars>>
    /\ request.fmt = "ctl"
    /\ lastRead' = [fmt |-> "ctl", result |-> read_control_values(ctlFile)]
    /\ nOps' = nOps + 1
    /\ UNCHANGED <<ctlFile, csvFile, request, lastWrite>>

\* A request that calls write_csv_settings(file, upd).
WriteCsv ==
    /\ nOps < MaxOps
    /\ UNCHANGED <<camVars, stVars, hVars, wVars>>
    /\ request.fmt = "csv"
    /\ LET r == write_csv_settings(csvFile, request.updates)
       IN  /\ csvFile' = r.rows
           /\ lastWrite' = [fmt |-> "csv", before |-> csvFile,
                            updates |-> request.updates, ok |-> r.ok]
    /\ lastRead' = NoRead
    /\ nOps' = nOps + 1
    /\ UNCHANGED <<ctlFile, request>>

\* A request that calls read_csv_settings(file).
ReadCsv ==
    /\ nOps < MaxOps
    /\ UNCHANGED <<camVars, stVars, hVars, wVars>>
    /\ request.fmt = "csv"
    /\ lastRead' = [fmt |-> "csv", result |-> read_csv_settings(csvFile)]
    /\ nOps' = nOps + 1
    /\ UNCHANGED <<ctlFile, csvFile, request, lastWrite>>

\* No settings request is made.
CfgIdle ==
    /\ ctlFile = DefaultCtl
    /\ csvFile = DefaultCsv
    /\ request = NoRequest
    /\ lastWrite = NoWrite
    /\ lastRead = NoRead
    /\ nOps = 0

\* No stream is requested.
CamIdle ==
    /\ cv2Available = FALSE
    /\ camera = None
    /\ camera_lock = NoThread
    /\ opened = {}
    /\ pc = [t \in Threads |-> "idle"]
    /\ newHandle = [t \in Threads |-> None]
    /\ streams = 0
    /\ frames = [t \in Threads |-> 0]
    /\ diags = [t \in Threads |-> 0]
    /\ initResult = [t \in Threads |-> "none"]
    /\ foundOpen = [t \in Threads |-> FALSE]
    /\ myHandle = [t \in Threads |-> None]
    /\ releaseRan = [t \in Threads |-> FALSE]
    /\ endCause = [t \in Threads |-> "none"]

----------------------------------------------------------------------------
(* Status snapshot: the sub-probes (lines 169-402) *)
(* Temperatures are in thousandths of a degree as the sensor file gives     *)
(* them; cpuTemp, cpuUsage and memoryUsage are in tenths (the code rounds   *)
(* to one decimal); voltage is in millivolts (5.0 V is 5000).               *)

Unset == [unset |-> TRUE]

\* round(x, 1) of x = m / 1000, in tenths: to the nearest tenth, a tie to the
\* even tenth.
Round1(m) ==
    LET q == m \div 100
        r == m % 100
    IN  IF r < 50 THEN q
        ELSE IF r > 50 THEN q + 1
        ELSE IF q % 2 = 0 THEN q ELSE q + 1

FallbackTempMilli == 45000   \* line 178
WarnAboveMilli    == 80000   \* line 197

\* line 197 with >= for >.
IsWarningInclusive(temp) == temp >= WarnAboveMilli

\* line 197
IsWarning(temp) == temp > WarnAboveMilli

\* lines 212-219
SystemFallback ==
    [cpuTemp |-> 450, cpuUsage |-> 250, memoryUsage |-> 400, uptime |-> 3600,
     deviceName |-> <<"CreatureBox">>, status |-> "Error"]

\* lines 169-219. in.tempReadable: the thermal file was opened and parsed;
\* in.psutil: "absent" (PSUTIL_AVAILABLE false), "ok", or "raises".
get_system_info(in, ctl) ==
    LET temp == IF in.tempReadable THEN in.tempMilli ELSE FallbackTempMilli
        control_values == read_control_values(ctl)
    IN  IF in.psutil = "raises"
        THEN SystemFallback
        ELSE [cpuTemp     |-> Round1(temp),
              cpuUsage    |-> IF in.psutil = "ok" THEN in.cpu ELSE 250,
              memoryUsage |-> IF in.psutil = "ok" THEN in.mem ELSE 400,
              uptime      |-> IF in.psutil = "ok" THEN in.uptime ELSE 3600,
              deviceName  |-> Get(control_values, <<"name">>, <<"CreatureBox">>),
              status      |-> IF IsWarning(temp) THEN "Warning" ELSE "Online"]

\* lines 321-326 and 336-341: the reading without a battery peripheral.
PowerFallback ==
    [source |-> "External Power", batteryLevel |-> 100, current |-> 0, voltage |-> 5000]

\* The stages of the PiJuice query (lines 305-317), in the order the code goes
\* through them; in.pj names the first one that fails, or "ok".
PjStages == <<"import", "status_raises", "status_error", "charge", "voltage",
              "current", "power_input", "ok">>
PjStageIndex(name) == CHOOSE i \in 1..Len(PjStages) : PjStages[i] = name

\* lines 282-341. in.cpuinfo: "unreadable", or the model found: "none", "4", "5".
get_power_info(in) ==
    LET failedAt       == PjStageIndex(in.pj)
        reached(stage) == failedAt > PjStageIndex(stage)
        queried        == in.cpuinfo = "4"
        \* line 309: set as soon as the status query reported NO_ERROR
        has_pijuice    == queried /\ reached("status_error")
        battery_level  == IF queried /\ reached("charge") THEN in.level ELSE 0
        voltage        == IF queried /\ reached("voltage") THEN in.millivolts ELSE 0
        current        == IF queried /\ reached("current") THEN in.current ELSE 0
        source         == IF queried /\ reached("power_input")
                          THEN (IF in.powerInput = "PRESENT" THEN "External Power"
                                ELSE "Battery")
                          ELSE "Unknown"
    IN  IF in.cpuinfo = "unreadable" THEN PowerFallback
        ELSE IF ~has_pijuice THEN PowerFallback
        ELSE [source |-> source, batteryLevel |-> battery_level,
              current |-> current, voltage |-> voltage]

ImageExtensions == {".jpg", ".jpeg", ".png", ".bmp"}
Lower(ext) == IF ext = ".JPG" THEN ".jpg" ELSE IF ext = ".PNG" THEN ".png" ELSE ext
\* lines 236 / 377
IsImage(f) == Lower(f.ext) \in ImageExtensions

RECURSIVE SumSizes(_)
SumSizes(fs) == IF fs = <<>> THEN 0 ELSE Head(fs).size + SumSizes(Tail(fs))

\* lines 251-259: the scan of one directory stops at its first mount point.
ScanEntries(acc, entries) ==
    IF \E i \in 1..Len(entries) : entries[i].ismount
    THEN LET i == CHOOSE j \in 1..Len(entries) :
                    entries[j].ismount /\ \A k \in 1..(j - 1) : ~entries[k].ismount
             total == entries[i].blocks * entries[i].bsize
         IN  [connected |-> TRUE, total |-> total,
              used |-> total - entries[i].bfree * entries[i].bsize]
    ELSE acc

\* lines 248-259: every sub-directory of one root, in listing order.
RECURSIVE ScanUsers(_, _)
ScanUsers(acc, users) ==
    IF users = <<>> THEN acc
    ELSE ScanUsers(IF Head(users).isdir THEN ScanEntries(acc, Head(users).entries) ELSE acc,
                   Tail(users))

\* lines 246-259: '/media', then '/mnt'.
RECURSIVE ScanRoots(_, _)
ScanRoots(acc, roots) ==
    IF roots = <<>> THEN acc
    ELSE ScanRoots(IF Head(roots).exists THEN ScanUsers(acc, Head(roots).users) ELSE acc,
                   Tail(roots))

\* os.listdir of a directory the process may not read raises.
ScanRaises(roots) ==
    \E i \in 1..Len(roots) : roots[i].exists /\
        \E j \in 1..Len(roots[i].users) :
            roots[i].users[j].isdir /\ ~roots[i].users[j].readable

\* A fallback that leaves out the photo fields.
StorageFallbackPartial ==
    [internalTotal |-> 0, internalUsed |-> 0, externalConnected |-> FALSE,
     externalTotal |-> 0, externalUsed |-> 0]

\* lines 272-280
StorageFallback ==
    [internalTotal |-> 0, internalUsed |-> 0, externalConnected |-> FALSE,
     externalTotal |-> 0, externalUsed |-> 0, photosCount |-> 0, photosSize |-> 0]

\* lines 221-280
get_storage_info(in, files) ==
    LET internal_total == in.blocks * in.bsize
        images == SelectSeq(files, IsImage)
        ext == ScanRoots([connected |-> FALSE, total |-> 0, used |-> 0], in.roots)
    IN  IF in.statvfs = "raises" \/ ScanRaises(in.roots)
        THEN StorageFallback
        ELSE [internalTotal |-> internal_total,
              internalUsed |-> internal_total - in.bfree * in.bsize,
              externalConnected |-> ext.connected,
              externalTotal |-> ext.total,
              externalUsed |-> ext.used,
              photosCount |-> Len(images),
              photosSize |-> SumSizes(images)]

\* lines 372-385: the modification time of the newest image, 0 without one.
RECURSIVE NewestTime(_, _)
NewestTime(newest, fs) ==
    IF fs = <<>> THEN newest
    ELSE NewestTime(IF IsImage(Head(fs)) /\ Head(fs).mtime > newest
                    THEN Head(fs).mtime ELSE newest, Tail(fs))

\* lines 397-402
ScheduleFallback ==
    [mode |-> "Unknown", nextWake |-> 0, lastPhoto |-> 0, runtime |-> "0"]

\* lines 343-402. in.raises: an exception reached the outer except clause
\* (the reads of the settings files catch their own).
get_schedule_info(in, csv, ctl, files) ==
    LET schedule_settings == read_csv_settings(csv)
    IN  IF in.raises THEN ScheduleFallback
        ELSE [mode |-> IF in.debugMarker THEN "DEBUG"
                       ELSE IF in.offMarker THEN "OFF" ELSE "ARMED",
              nextWake |-> IF in.wakeReadable THEN in.wake ELSE 0,
              lastPhoto |-> NewestTime(0, files),
              runtime |-> Get(schedule_settings, "runtime", "0")]

----------------------------------------------------------------------------
(* Status snapshot: the environments a probe may meet *)

TempsMilli == {45000, 79900, 80000, 80001, 80250, 95000}

\* An unreadable thermal file has no reading (tempMilli is then not used).
SystemInputs ==
    {[tempReadable |-> r, tempMilli |-> m, psutil |-> ps, cpu |-> 123, mem |-> 567,
      uptime |-> 7200] :
        r \in {TRUE}, m \in TempsMilli, ps \in {"absent", "ok", "raises"}}
    \cup
    {[tempReadable |-> FALSE, tempMilli |-> 0, psutil |-> ps, cpu |-> 123, mem |-> 567,
      uptime |-> 7200] : ps \in {"absent", "ok", "raises"}}

PowerReading(c, f, pin) ==
    [cpuinfo |-> c, pj |-> f, powerInput |-> pin, level |-> 55, millivolts |-> 3700,
     current |-> 200]

\* The peripheral is queried on the Pi 4 only: on the other models the query
\* outcome is not an input.
PowerInputs ==
    {PowerReading(c, "import", "PRESENT") : c \in {"unreadable", "none", "5"}}
    \cup {PowerReading("4", PjStages[i], "PRESENT") : i \in 1..Len(PjStages)}
    \cup {PowerReading("4", "ok", "NOT_PRESENT")}

Mount(b) == [ismount |-> TRUE, blocks |-> b, bsize |-> 4, bfree |-> 1]
Plain == [ismount |-> FALSE, blocks |-> 0, bsize |-> 0, bfree |-> 0]
Dir(entries) == [isdir |-> TRUE, readable |-> TRUE, entries |-> entries]
Root(users) == [exists |-> TRUE, users |-> users]
NoRoot == [exists |-> FALSE, users |-> <<>>]

\* The trees under /media and /mnt.
MountLayouts ==
    { <<NoRoot, NoRoot>>,
      <<Root(<<Dir(<<Plain>>)>>), Root(<<>>)>>,
      <<Root(<<Dir(<<Plain, Mount(10), Mount(20)>>)>>), NoRoot>>,
      <<Root(<<Dir(<<Mount(10)>>), Dir(<<Mount(20)>>)>>), NoRoot>>,
      <<Root(<<Dir(<<Mount(10)>>)>>), Root(<<Dir(<<Mount(30)>>)>>)>>,
      <<Root(<<[isdir |-> FALSE, readable |-> TRUE, entries |-> <<>>]>>), NoRoot>>,
      <<Root(<<[isdir |-> TRUE, readable |-> FALSE, entries |-> <<>>]>>), NoRoot>> }

StorageReading(v, l) ==
    [statvfs |-> v, blocks |-> 100, bsize |-> 4, bfree |-> 25, roots |-> l]

StorageInputs ==
    {StorageReading("ok", l) : l \in MountLayouts}
    \cup {StorageReading("raises", <<NoRoot, NoRoot>>)}

ScheduleReading(x, d, o, w) ==
    [raises |-> x, debugMarker |-> d, offMarker |-> o, wakeReadable |-> w, wake |-> 1700]

ScheduleInputs ==
    {ScheduleReading(FALSE, d, o, w) : d \in BOOLEAN, o \in BOOLEAN, w \in BOOLEAN}
    \cup {ScheduleReading(TRUE, FALSE, FALSE, FALSE)}

PhotoSets ==
    { <<>>,
      <<[ext |-> ".JPG", size |-> 10, mtime |-> 5], [ext |-> ".txt", size |-> 7, mtime |-> 9],
        [ext |-> ".png", size |-> 4, mtime |-> 8]>> }

StatusCtlFiles == {DefaultCtl, WriteLines(<<<<"garbage">>>>)}
StatusCsvFiles == {DefaultCsv, << <<"SETTING", "VALUE">> >>}

Probes == {"system", "power", "storage", "schedule"}

----------------------------------------------------------------------------
(* system_status (lines 633-646) *)

StInit ==
    /\ stPc = "system"
    /\ probeIn = [p \in {} |-> Unset]
    /\ photos \in PhotoSets
    /\ ctlFile \in StatusCtlFiles
    /\ csvFile \in StatusCsvFiles
    /\ request = NoRequest
    /\ lastWrite = NoWrite
    /\ lastRead = NoRead
    /\ nOps = 0
    /\ system_info = Unset
    /\ power_info = Unset
    /\ storage_info = Unset
    /\ schedule_info = Unset
    /\ response = Unset

Ran(p, in) == [q \in DOMAIN probeIn \cup {p} |-> IF q = p THEN in ELSE probeIn[q]]

\* line 636
StatusSystem ==
    /\ stPc = "system"
    /\ \E in \in SystemInputs :
         /\ system_info' = get_system_info(in, ctlFile)
         /\ probeIn' = Ran("system", in)
    /\ stPc' = "power"
    /\ UNCHANGED <<photos, power_info, storage_info, schedule_info, response>>
    /\ UNCHANGED <<camVars, cfgVars, hVars, wVars>>

\* line 637
StatusPower ==
    /\ stPc = "power"
    /\ \E in \in PowerInputs :
         /\ power_info' = get_power_info(in)
         /\ probeIn' = Ran("power", in)
    /\ stPc' = "storage"
    /\ UNCHANGED <<photos, system_info, storage_info, schedule_info, response>>
    /\ UNCHANGED <<camVars, cfgVars, hVars, wVars>>

\* A storage probe whose failure is caught around the whole handler: the
\* sections read before it are replaced by their fallbacks as well.
StatusStorageClobbers ==
    /\ stPc = "storage"
    /\ \E in \in StorageInputs :
         /\ storage_info' = get_storage_info(in, photos)
         /\ probeIn' = Ran("storage", in)
         /\ IF in.statvfs = "raises" \/ ScanRaises(in.roots)
            THEN system_info' = SystemFallback /\ power_info' = PowerFallback
            ELSE UNCHANGED <<system_info, power_info>>
    /\ stPc' = "schedule"
    /\ UNCHANGED <<photos, schedule_info, response>>
    /\ UNCHANGED <<camVars, cfgVars, hVars, wVars>>

\* lines 306-312: a query of the PiJuice over the I2C bus that does not return.
\* No call of get_power_info has a timeout, so system_status stays at line 637.
StatusPowerBlocks ==
    /\ stPc = "power"
    /\ stPc' = "power_blocked"
    /\ UNCHANGED <<probeIn, photos, system_info, power_info, storage_info,
                   schedule_info, response>>
    /\ UNCHANGED <<camVars, cfgVars, hVars, wVars>>

\* line 638
StatusStorage ==
    /\ stPc = "storage"
    /\ \E in \in StorageInputs :
         /\ storage_info' = get_storage_info(in, photos)
         /\ probeIn' = Ran("storage", in)
    /\ stPc' = "schedule"
    /\ UNCHANGED <<photos, system_info, power_info, schedule_info, response>>
    /\ UNCHANGED <<camVars, cfgVars, hVars, wVars>>

\* line 639
StatusSchedule ==
    /\ stPc = "schedule"
    /\ \E in \in ScheduleInputs :
         /\ schedule_info' = get_schedule_info(in, csvFile, ctlFile, photos)
         /\ probeIn' = Ran("schedule", in)
    /\ stPc' = "respond"
    /\ UNCHANGED <<photos, system_info, power_info, storage_info, response>>
    /\ UNCHANGED <<camVars, cfgVars, hVars, wVars>>

\* lines 641-646
StatusRespond ==
    /\ stPc = "respond"
    /\ response' = [system |-> system_info, power |-> power_info,
                    storage |-> storage_info, schedule |-> schedule_info]
    /\ stPc' = "returned"
    /\ UNCHANGED <<probeIn, photos, system_info, power_info, storage_info, schedule_info>>
    /\ UNCHANGED <<camVars, cfgVars, hVars, wVars>>

StNext ==
    \/ StatusSystem
    \/ StatusPower
    \/ StatusPowerBlocks
    \/ StatusStorage
    \/ StatusSchedule
    \/ StatusRespond

\* No status request is made.
StIdle ==
    /\ stPc = "idle"
    /\ probeIn = [p \in {} |-> Unset]
    /\ photos = <<>>
    /\ system_info = Unset
    /\ power_info = Unset
    /\ storage_info = Unset
    /\ schedule_info = Unset
    /\ response = Unset

----------------------------------------------------------------------------
(* run_script (lines 150-167) *)

\* What subprocess.run met: the process could not be started (the exception
\* text is `error`), or it ran and ended with `returncode`, having written
\* `stdout` and `stderr`; text=True decodes both, which raises
\* UnicodeDecodeError when they are not valid in the locale's encoding.
ScriptOutcome(l, rc, dec, out, err) ==
    [launched |-> l, returncode |-> rc, decodable |-> dec, stdout |-> out,
     stderr |-> err, error |-> "[Errno 2] No such file or directory: 'python3'"]

ScriptOutcomes ==
    {ScriptOutcome(FALSE, 0, TRUE, "", "")}
    \cup {ScriptOutcome(TRUE, rc, dec, io[1], io[2]) :
            rc \in {0, 1}, dec \in BOOLEAN, io \in {<<"out", "">>, <<"out", "err">>}}

DecodeError == "'utf-8' codec can't decode byte 0xff in position 0: invalid start byte"

\* lines 150-167: the pair returned, and how often the script was executed.
run_script(o) ==
    IF ~o.launched
    THEN [succeeded |-> FALSE, output |-> o.error, executions |-> 0]
    ELSE IF ~o.decodable
    THEN [succeeded |-> FALSE, output |-> DecodeError, executions |-> 1]
    ELSE IF o.returncode # 0
    THEN [succeeded |-> FALSE, output |-> o.stderr, executions |-> 1]
    ELSE [succeeded |-> TRUE, output |-> o.stdout, executions |-> 1]

NoRun == [called |-> FALSE]
Ran1(o) == [called |-> TRUE, outcome |-> o, result |-> run_script(o)]

----------------------------------------------------------------------------
(* Request handlers (lines 655-713, 866-889) *)

NoReply == [handler |-> "none"]
NoToggle == [prev |-> "none", cur |-> "none"]

\* f"{key}={values[key]}" (line 138): the characters of a value of the request.
Chars(v) == IF v = "x\ny" THEN <<"x", NL, "y">> ELSE <<v>>

\* str.lower() of a value of the control file.
LowerWord(w) ==
    [i \in 1..Len(w) |-> IF w[i] \in {"True", "TRUE"} THEN "true"
                         ELSE IF w[i] \in {"False", "FALSE"} THEN "false" ELSE w[i]]

HandlerCtlFiles ==
    { DefaultCtl,
      WriteLines(<<<<"name", "=", "box">>>>),
      WriteLines(<<<<"lights_on", "=", "True">>, <<"runtime", "=", "60">>>>),
      WriteLines(<<<<"garbage">>, <<"lights_on", "=", "false">>>>),
      WriteLines(<<<<"runtime", "=", "60">>, <<"lights_on", "=", "true">>>>) }

HandlerCsvFiles ==
    { DefaultCsv,
      << <<"SETTING", "VALUE">>, <<"interval", "30">>, <<"runtime", "60", "n">> >>,
      << <<"SETTING", "VALUE">> >> }

HInit ==
    /\ ctlFile \in HandlerCtlFiles
    /\ csvFile \in HandlerCsvFiles
    /\ request = NoRequest
    /\ lastWrite = NoWrite
    /\ lastRead = NoRead
    /\ nOps = 0
    /\ lastRun = NoRun
    /\ reply = NoReply
    /\ lastToggle = NoToggle

\* lines 674-682: capture_photo (calibrate_camera, lines 664-672, has the same
\* shape).
CapturePhoto ==
    /\ nOps < MaxOps
    /\ \E o \in ScriptOutcomes :
         /\ lastRun' = Ran1(o)
         /\ reply' = [handler |-> "capture_photo",
                      status  |-> IF run_script(o).succeeded THEN "success" ELSE "error",
                      failed  |-> IF run_script(o).succeeded THEN {} ELSE {"run_script"}]
    /\ lastToggle' = NoToggle
    /\ nOps' = nOps + 1
    /\ UNCHANGED <<ctlFile, csvFile, request, lastWrite, lastRead>>
    /\ UNCHANGED <<camVars, stVars, wVars>>

\* lines 655-663: update_camera_settings.
UpdateCameraSettings ==
    /\ nOps < MaxOps
    /\ \E settings \in Updates(CsvKeys, CsvValues) :
         LET w == write_csv_settings(csvFile, settings)
         IN  /\ csvFile' = w.rows
             /\ reply' = [handler |-> "update_camera_settings",
                          status  |-> IF w.ok THEN "success" ELSE "error",
                          failed  |-> IF w.ok THEN {} ELSE {"write_csv_settings"}]
    /\ lastToggle' = NoToggle
    /\ nOps' = nOps + 1
    /\ UNCHANGED <<ctlFile, request, lastWrite, lastRead, lastRun>>
    /\ UNCHANGED <<camVars, stVars, wVars>>

\* lines 697-713: update_schedule_settings.
UpdateScheduleSettings ==
    /\ nOps < MaxOps
    /\ \E settings \in Updates(CsvKeys, CsvValues), o \in ScriptOutcomes :
         LET success == write_csv_settings(csvFile, settings)
             hasRuntime == "runtime" \in DOMAIN settings
             control_values == [k \in {<<"runtime">>} |-> Chars(settings["runtime"])]
             w == IF hasRuntime THEN write_control_values(ctlFile, control_values)
                  ELSE [ok |-> TRUE, text |-> ctlFile]
             r == run_script(o)
         IN  /\ csvFile' = success.rows
             /\ ctlFile' = w.text
             /\ lastRun' = IF success.ok THEN Ran1(o) ELSE lastRun
             /\ reply' = [handler |-> "update_schedule_settings",
                          status  |-> IF success.ok THEN "success" ELSE "error",
                          failed  |-> (IF success.ok THEN {} ELSE {"write_csv_settings"})
                                      \cup (IF w.ok THEN {} ELSE {"write_control_values"})
                                      \cup (IF success.ok /\ ~r.succeeded
                                            THEN {"run_script"} ELSE {})]
    /\ lastToggle' = NoToggle
    /\ nOps' = nOps + 1
    /\ UNCHANGED <<request, lastWrite, lastRead>>
    /\ UNCHANGED <<camVars, stVars, wVars>>

\* lines 866-889: toggle_lights. Nothing in its try block raises: the reads
\* and writes of the control file and run_script catch their own exceptions.
ToggleLights ==
    /\ nOps < MaxOps
    /\ \E o \in ScriptOutcomes :
         LET control_values == read_control_values(ctlFile)
             current_state ==
                LowerWord(Get(control_values, <<"lights_on">>, <<"false">>)) = <<"true">>
             new_state == ~current_state
             r == run_script(o)
             w == write_control_values(ctlFile,
                    [k \in {<<"lights_on">>} |->
                        IF new_state THEN <<"true">> ELSE <<"false">>])
         IN  /\ ctlFile' = w.text
             /\ lastRun' = Ran1(o)
             /\ reply' = [handler |-> "toggle_lights",
                          status  |-> "success",
                          failed  |-> (IF r.succeeded THEN {} ELSE {"run_script"})
                                      \cup (IF w.ok THEN {} ELSE {"write_control_values"})]
             /\ lastToggle' = [prev |-> lastToggle.cur,
                               cur  |-> IF new_state THEN "on" ELSE "off"]
    /\ nOps' = nOps + 1
    /\ UNCHANGED <<csvFile, request, lastWrite, lastRead>>
    /\ UNCHANGED <<camVars, stVars, wVars>>

HNext == CapturePhoto \/ UpdateCameraSettings \/ UpdateScheduleSettings \/ ToggleLights

\* No handler of this group is requested.
HIdle ==
    /\ lastRun = NoRun
    /\ reply = NoReply
    /\ lastToggle = NoToggle

----------------------------------------------------------------------------
(* Concurrent settings writers (lines 85-110, 125-148) *)
(* A write is three steps of its thread: the file is read (lines 90-94,      *)
(* 130-132), it is opened for writing, which truncates it (lines 102, 141),  *)
(* and the lines computed from what was read are written and the file is     *)
(* closed (lines 103-105, 142-143). Nothing orders the steps of two threads. *)

IdleWriter == [pc |-> "idle"]

WriterCtlFile == WriteLines(<<<<"name", "=", "box">>, <<"runtime", "=", "60">>>>)
WriterCsvFile == << <<"SETTING", "VALUE">>, <<"interval", "30">>, <<"runtime", "60">> >>

\* The update mappings of the concurrent requests.
WriterCtlUpdates ==
    { [k \in {<<"name">>} |-> <<"cam">>], [k \in {<<"runtime">>} |-> <<"9">>],
      [k \in {<<"zz">>} |-> <<"9">>] }
WriterCsvUpdates ==
    { [k \in {"interval"} |-> "60"], [k \in {"runtime"} |-> "9"], [k \in {"zz"} |-> "9"] }

WInit ==
    /\ ctlFile = WriterCtlFile
    /\ csvFile = WriterCsvFile
    /\ request = NoRequest
    /\ lastWrite = NoWrite
    /\ lastRead = NoRead
    /\ nOps = 0
    /\ writers = [t \in Threads |-> IdleWriter]

\* lines 135-136 / 97-98: whether the update loop completes, so that the file
\* is opened for writing.
CtlOpensForWriting(text) ==
    \A i \in 1..Len(FileLines(text)) : Unpacks(Strip(FileLines(text)[i]))
CsvOpensForWriting(rows) ==
    HasHeader(rows) =>
        \A i \in 1..Len(DataRows(rows)) :
            "SETTING" \in DOMAIN RowDict(FieldNames(rows), DataRows(rows)[i])

\* What a writer holds after its read: `existing` is the local
\* existing_settings / existing_values, `readFrom` the file as it was then.
HasRead(fmt, file, upd) ==
    [pc |-> "read", fmt |-> fmt, existing |-> file, readFrom |-> file, upd |-> upd]

\* lines 128-132
CtlWriterRead(t) ==
    /\ writers[t].pc \in {"idle", "done"}
    /\ nOps < MaxOps
    /\ nOps' = nOps + 1
    /\ \E upd \in WriterCtlUpdates :
         writers' = [writers EXCEPT ![t] = HasRead("ctl", ctlFile, upd)]
    /\ UNCHANGED <<ctlFile, csvFile, request, lastWrite, lastRead>>
    /\ UNCHANGED <<camVars, stVars, hVars>>

\* lines 88-94
CsvWriterRead(t) ==
    /\ writers[t].pc \in {"idle", "done"}
    /\ nOps < MaxOps
    /\ nOps' = nOps + 1
    /\ \E upd \in WriterCsvUpdates :
         writers' = [writers EXCEPT ![t] = HasRead("csv", csvFile, upd)]
    /\ UNCHANGED <<ctlFile, csvFile, request, lastWrite, lastRead>>
    /\ UNCHANGED <<camVars, stVars, hVars>>

WriterFailed(t) ==
    writers' = [writers EXCEPT ![t] = [@ EXCEPT !.pc = "done"] @@ [ok |-> FALSE]]

\* lines 135-141
CtlWriterOpen(t) ==
    /\ writers[t].pc = "read" /\ writers[t].fmt = "ctl"
    /\ IF CtlOpensForWriting(writers[t].existing)
       THEN /\ writers' = [writers EXCEPT ![t] = [@ EXCEPT !.pc = "opened"]]
            /\ ctlFile' = <<>>
       ELSE /\ WriterFailed(t)
            /\ UNCHANGED ctlFile
    /\ UNCHANGED <<csvFile, request, lastWrite, lastRead, nOps>>
    /\ UNCHANGED <<camVars, stVars, hVars>>

\* lines 142-145
CtlWriterFlush(t) ==
    /\ writers[t].pc = "opened" /\ writers[t].fmt = "ctl"
    /\ LET r == write_control_values(writers[t].existing, writers[t].upd)
       IN  /\ ctlFile' = r.text
           /\ writers' = [writers EXCEPT ![t] = [@ EXCEPT !.pc = "done"] @@ [ok |-> r.ok]]
    /\ UNCHANGED <<csvFile, request, lastWrite, lastRead, nOps>>
    /\ UNCHANGED <<camVars, stVars, hVars>>

\* A writer that reads the file again when it opens it for writing.
CsvWriterOpenRereads(t) ==
    /\ writers[t].pc = "read" /\ writers[t].fmt = "csv"
    /\ IF CsvOpensForWriting(csvFile)
       THEN /\ writers' = [writers EXCEPT ![t] =
                            [@ EXCEPT !.pc = "opened", !.existing = csvFile]]
            /\ csvFile' = <<>>
       ELSE /\ WriterFailed(t)
            /\ UNCHANGED csvFile
    /\ UNCHANGED <<ctlFile, request, lastWrite, lastRead, nOps>>
    /\ UNCHANGED <<camVars, stVars, hVars>>

\* lines 97-102
CsvWriterOpen(t) ==
    /\ writers[t].pc = "read" /\ writers[t].fmt = "csv"
    /\ IF CsvOpensForWriting(writers[t].existing)
       THEN /\ writers' = [writers EXCEPT ![t] = [@ EXCEPT !.pc = "opened"]]
            /\ csvFile' = <<>>
       ELSE /\ WriterFailed(t)
            /\ UNCHANGED csvFile
    /\ UNCHANGED <<ctlFile, request, lastWrite, lastRead, nOps>>
    /\ UNCHANGED <<camVars, stVars, hVars>>

\* lines 103-107
CsvWriterFlush(t) ==
    /\ writers[t].pc = "opened" /\ writers[t].fmt = "csv"
    /\ LET r == write_csv_settings(writers[t].existing, writers[t].upd)
       IN  /\ csvFile' = r.rows
           /\ writers' = [writers EXCEPT ![t] = [@ EXCEPT !.pc = "done"] @@ [ok |-> r.ok]]
    /\ UNCHANGED <<ctlFile, request, lastWrite, lastRead, nOps>>
    /\ UNCHANGED <<camVars, stVars, hVars>>

WNext ==
    \E t \in Threads :
        \/ CtlWriterRead(t)
        \/ CtlWriterOpen(t)
        \/ CtlWriterFlush(t)
        \/ CsvWriterRead(t)
        \/ CsvWriterOpen(t)
        \/ CsvWriterFlush(t)

\* No settings write is in progress.
WIdle == writers = [t \in Threads |-> IdleWriter]

----------------------------------------------------------------------------
(* Specifications *)

InitCamera == CamInit /\ CfgIdle /\ StIdle /\ HIdle /\ WIdle
SpecCamera == InitCamera /\ [][CamNext]_vars

InitConfig == CfgInit /\ CamIdle /\ StIdle /\ HIdle /\ WIdle
NextConfig == WriteControl \/ ReadControl \/ WriteCsv \/ ReadCsv
SpecConfig == InitConfig /\ [][NextConfig]_vars

InitStatus == StInit /\ CamIdle /\ HIdle /\ WIdle
SpecStatus == InitStatus /\ [][StNext]_vars

InitHandlers == HInit /\ CamIdle /\ StIdle /\ WIdle
SpecHandlers == InitHandlers /\ [][HNext]_vars

InitWriters == WInit /\ CamIdle /\ StIdle /\ HIdle
SpecWriters == InitWriters /\ [][WNext]_vars

----------------------------------------------------------------------------
(* Camera claims *)

\* No stream is running: every thread is before its first stream or has
\* returned from its last one.
AllQuiet == \A t \in Threads : pc[t] \in {"idle", "done"}

\* C1: a stream whose init_camera succeeded returns only through
\* release_camera, whatever ended its loop (read failure, close by the consumer,
\* exception); the step in which release_camera returns leaves the global handle
\* None, and the device session this stream opened is closed from then on.
C1_ReleaseOnEveryExit ==
    /\ [](\A t \in Threads :
            (pc[t] = "done" /\ initResult[t] = "ok")
                => (releaseRan[t] /\ myHandle[t] \notin opened /\ camera # myHandle[t]))
    /\ [][\A t \in Threads :
            (pc[t] # "done" /\ pc'[t] = "done" /\ initResult[t] = "ok")
                => (releaseRan'[t] /\ camera' = None /\ opened' = {})]_vars

\* C1 witness: a stream that emitted a frame was closed by its consumer and has
\* returned, release_camera having run.
C1_Witness ==
    \E t \in Threads :
        /\ pc[t] = "done" /\ initResult[t] = "ok" /\ endCause[t] = "closed"
        /\ frames[t] >= 1 /\ releaseRan[t] /\ camera = None

\* C2: a stream without camera capability, or whose init_camera failed, yields
\* exactly one diagnostic item and no frame, never holds the lock while it is
\* suspended, and returns; whenever no stream is running the handle is None
\* and no device session is open.
C2_DegradedStream ==
    /\ \A t \in Threads :
          /\ pc[t] = "y_diag" => (diags[t] = 1 /\ frames[t] = 0 /\ camera_lock # t
                                    /\ initResult[t] # "ok")
          /\ (pc[t] = "done" /\ initResult[t] # "ok") => (diags[t] = 1 /\ frames[t] = 0)
          /\ (pc[t] = "done" /\ initResult[t] = "ok") => diags[t] = 0
          /\ ~cv2Available => pc[t] \in {"idle", "y_diag", "done"}
    /\ AllQuiet => (camera = None /\ opened = {} /\ camera_lock = NoThread)

\* C2 witness: two degraded streams have run (a failed init_camera among them)
\* and nothing is running.
C2_Witness ==
    /\ streams = 2
    /\ AllQuiet
    /\ \A t \in Threads : pc[t] = "done" => initResult[t] = "fail"
    /\ \E t \in Threads : pc[t] = "done"
    /\ camera = None

\* C3: at most one device session is open at any time; init_camera builds its
\* new object only when no session is open; and init_camera returns False only
\* from its except clause or because the new device did not open, never because
\* it found a handle.
C3_OneSession ==
    /\ [](Cardinality(opened) <= 1)
    /\ [](\A t \in Threads : pc[t] = "i_new" => opened = {})
    /\ [][\A t \in Threads :
            (initResult[t] = "none" /\ initResult'[t] = "fail")
                => (pc[t] = "i_exc" \/ (pc[t] = "i_isopen" /\ camera \notin opened))]_vars

\* C3 witness: an init_camera that found another stream's open handle returned
\* True, and one session is open.
C3_Witness ==
    \E t \in Threads :
        /\ foundOpen[t] /\ initResult[t] = "ok" /\ pc[t] = "l_lock"
        /\ opened = {camera} /\ camera = myHandle[t]
        /\ \E u \in Threads \ {t} : initResult[u] = "ok" /\ pc[u] # "done"

----------------------------------------------------------------------------
(* Status snapshot claims *)

Section(p) ==
    CASE p = "system"   -> system_info
      [] p = "power"    -> power_info
      [] p = "storage"  -> storage_info
      [] p = "schedule" -> schedule_info

\* What probe p returns for the environment it met, computed from that
\* environment and the files only.
Expected(p) ==
    CASE p = "system"   -> get_system_info(probeIn[p], ctlFile)
      [] p = "power"    -> get_power_info(probeIn[p])
      [] p = "storage"  -> get_storage_info(probeIn[p], photos)
      [] p = "schedule" -> get_schedule_info(probeIn[p], csvFile, ctlFile, photos)

\* The environments in which probe p ends in its outer except clause.
Fails(p, in) ==
    CASE p = "system"   -> in.psutil = "raises"
      [] p = "power"    -> in.cpuinfo = "unreadable"
      [] p = "storage"  -> in.statvfs = "raises" \/ ScanRaises(in.roots)
      [] p = "schedule" -> in.raises

Fallback(p) ==
    CASE p = "system"   -> SystemFallback
      [] p = "power"    -> PowerFallback
      [] p = "storage"  -> StorageFallback
      [] p = "schedule" -> ScheduleFallback

SystemDefined(r) ==
    /\ DOMAIN r = {"cpuTemp", "cpuUsage", "memoryUsage", "uptime", "deviceName", "status"}
    /\ r.cpuTemp \in Int /\ r.cpuUsage \in Int /\ r.memoryUsage \in Int
    /\ r.uptime \in Nat
    /\ DOMAIN r.deviceName = 1..Len(r.deviceName)
    /\ r.status \in {"Online", "Warning", "Error"}

PowerDefined(r) ==
    /\ DOMAIN r = {"source", "batteryLevel", "current", "voltage"}
    /\ r.source \in {"Battery", "External Power", "Unknown"}
    /\ r.batteryLevel \in Int /\ r.current \in Int /\ r.voltage \in Int

StorageDefined(r) ==
    /\ DOMAIN r = {"internalTotal", "internalUsed", "externalConnected", "externalTotal",
                   "externalUsed", "photosCount", "photosSize"}
    /\ r.internalTotal \in Nat /\ r.internalUsed \in Int
    /\ r.externalConnected \in BOOLEAN
    /\ r.externalTotal \in Nat /\ r.externalUsed \in Int
    /\ r.photosCount \in Nat /\ r.photosSize \in Nat

ScheduleDefined(r) ==
    /\ DOMAIN r = {"mode", "nextWake", "lastPhoto", "runtime"}
    /\ r.mode \in {"ARMED", "DEBUG", "OFF", "Unknown"}
    /\ r.nextWake \in Nat /\ r.lastPhoto \in Nat
    /\ r.runtime \in STRING

\* C4: system_status always comes to its return statement, whatever each of
\* the four probes met, and the snapshot it returns has the four sections, each
\* with every one of its fields holding a value of the field's type; this
\* includes the snapshot made when all four probes failed.
C4_SnapshotTotal ==
    /\ stPc \in {"idle", "system", "power", "power_blocked", "storage", "schedule",
                 "respond", "returned"}
    /\ stPc = "returned" =>
         /\ DOMAIN response = {"system", "power", "storage", "schedule"}
         /\ SystemDefined(response.system)
         /\ PowerDefined(response.power)
         /\ StorageDefined(response.storage)
         /\ ScheduleDefined(response.schedule)

\* A snapshot was returned although every probe failed.
C4_Witness ==
    /\ stPc = "returned"
    /\ \A p \in Probes : Fails(p, probeIn[p])
    /\ \A p \in Probes : response[p] = Fallback(p)

\* C5: the section a probe produced is what that probe returns for the
\* environment it met itself, whether the probes before and after it succeeded
\* or failed; a probe that failed produced its own fallback, the sections of
\* the probes not yet run are untouched, and the snapshot returned holds the
\* four sections as they were produced.
C5_FailureIsolation ==
    /\ \A p \in DOMAIN probeIn :
         /\ Section(p) = Expected(p)
         /\ Fails(p, probeIn[p]) => Section(p) = Fallback(p)
    /\ \A p \in Probes \ DOMAIN probeIn : Section(p) = Unset
    /\ stPc = "returned" => \A p \in Probes : response[p] = Expected(p)

\* The storage probe failed, and the power section before it and the schedule
\* section after it are real readings, not fallbacks.
C5_Witness ==
    /\ stPc = "returned"
    /\ Fails("storage", probeIn["storage"])
    /\ response.storage = StorageFallback
    /\ probeIn["power"].cpuinfo = "4" /\ probeIn["power"].pj = "ok"
    /\ response.power = [source |-> "Battery", batteryLevel |-> 55, current |-> 200,
                         voltage |-> 3700]
    /\ ~Fails("schedule", probeIn["schedule"])
    /\ response.schedule.mode = "DEBUG"
    /\ ~Fails("system", probeIn["system"])
    /\ response.system.status = "Warning"

\* C6: when the compute probe completes without an exception, a reading above
\* 80 degrees gives status Warning, a reading of exactly 80 degrees gives
\* status Online, and an unreadable thermal file gives the temperature 45.0
\* with status Online.
C6_TemperatureStatus ==
    ("system" \in DOMAIN probeIn /\ probeIn["system"].psutil # "raises") =>
        LET in == probeIn["system"]
        IN  /\ (in.tempReadable /\ in.tempMilli > 80000) => system_info.status = "Warning"
            /\ (in.tempReadable /\ in.tempMilli = 80000) =>
                    system_info.status = "Online" /\ system_info.cpuTemp = 800
            /\ (in.tempReadable /\ in.tempMilli < 80000) => system_info.status = "Online"
            /\ ~in.tempReadable =>
                    system_info.cpuTemp = 450 /\ system_info.status = "Online"

\* The probe read exactly 80 degrees and completed.
C6_Witness ==
    /\ "system" \in DOMAIN probeIn
    /\ probeIn["system"].tempReadable /\ probeIn["system"].tempMilli = 80000
    /\ probeIn["system"].psutil = "ok"
    /\ system_info.status = "Online"
    /\ system_info.cpuTemp = 800

\* C7: on the Pi 4, whenever any step of the PiJuice query fails (the import or
\* the constructor, the status query, a status other than NO_ERROR, the charge
\* level, voltage or current query, the power input field), the power section
\* is the fallback: External Power, 100, 0, 5.0 V.
C7_FallbackOnAnyFailure ==
    ("power" \in DOMAIN probeIn /\ probeIn["power"].cpuinfo = "4"
                                /\ probeIn["power"].pj # "ok")
        => power_info = PowerFallback

----------------------------------------------------------------------------
(* Settings claims *)

StrippedLines(text) == [i \in 1..Len(FileLines(text)) |-> Strip(FileLines(text)[i])]
LineName(line) == Split(line, "=")[1]
NameColumn(rows) ==
    CHOOSE i \in 1..Len(FieldNames(rows)) : FieldNames(rows)[i] = "SETTING"

\* C8: after a write, the file has as many lines (rows) as before, with the
\* same names in the same order; a line whose name is not a key of the update
\* is as it was, so an update whose keys name no line leaves every line as it
\* was. Lines are compared without their surrounding blanks, CSV rows without
\* the blank rows.
C8_UpdateOnly ==
    /\ lastWrite.fmt = "ctl" =>
         LET B == StrippedLines(lastWrite.before)
             A == StrippedLines(ctlFile)
         IN  /\ Len(A) = Len(B)
             /\ \A i \in 1..Len(B) :
                  /\ LineName(A[i]) = LineName(B[i])
                  /\ LineName(B[i]) \notin DOMAIN lastWrite.updates => A[i] = B[i]
    /\ lastWrite.fmt = "csv" =>
         LET B == SelectSeq(lastWrite.before, NonBlank)
             A == SelectSeq(csvFile, NonBlank)
         IN  /\ Len(A) = Len(B)
             /\ \A i \in 1..Len(B) :
                  (i = 1 \/ "SETTING" \notin {B[1][j] : j \in 1..Len(B[1])}
                         \/ Len(B[i]) < NameColumn(B)
                         \/ B[i][NameColumn(B)] \notin DOMAIN lastWrite.updates)
                    => A[i] = B[i]

\* A key=value file is valid when every line is name=value, with distinct
\* names; a CSV file when its header is SETTING,VALUE and every row has a
\* name and a value, with distinct names.
ValidCtl(text) ==
    LET L == StrippedLines(text)
    IN  /\ \A i \in 1..Len(L) : Unpacks(L[i])
        /\ \A i, j \in 1..Len(L) : LineName(L[i]) = LineName(L[j]) => i = j
ValidCsv(rows) ==
    /\ rows # <<>>
    /\ rows[1] = <<"SETTING", "VALUE">>
    /\ \A i \in 2..Len(rows) : Len(rows[i]) = 2
    /\ \A i, j \in 2..Len(rows) : rows[i][1] = rows[j][1] => i = j

\* The mapping a read must return after `orig` was updated with `upd`.
UpdatedMapping(orig, upd) ==
    [k \in DOMAIN orig |-> IF k \in DOMAIN upd THEN upd[k] ELSE orig[k]]

\* C9: a read that follows a write to a valid file returns, for every key the
\* file had, the value of the update if the update has the key and the
\* original value otherwise, and no other key; this for both formats and for
\* every update value.
C9_RoundTrip ==
    /\ (lastWrite.fmt = "ctl" /\ lastRead.fmt = "ctl" /\ ValidCtl(lastWrite.before)) =>
         lastRead.result =
            UpdatedMapping(read_control_values(lastWrite.before), lastWrite.updates)
    /\ (lastWrite.fmt = "csv" /\ lastRead.fmt = "csv" /\ ValidCsv(lastWrite.before)) =>
         lastRead.result =
            UpdatedMapping(read_csv_settings(lastWrite.before), lastWrite.updates)

\* C10: a read of a control file that has a line without "=" returns the empty
\* mapping, also when well-formed lines come before that line.
C10_NoPartialRead ==
    lastRead.fmt = "ctl" =>
        ((\E i \in 1..Len(FileLines(ctlFile)) :
              \A j \in 1..Len(FileLines(ctlFile)[i]) : FileLines(ctlFile)[i][j] # "=")
            => lastRead.result = EmptyDict)

\* The file read starts with a well-formed line and has a later line without
\* "=", and the read returned the empty mapping.
C10_Witness ==
    /\ lastRead.fmt = "ctl"
    /\ Len(FileLines(ctlFile)) >= 2
    /\ FileLines(ctlFile)[1] = <<"name", "=", "box">>
    /\ FileLines(ctlFile)[2] = <<"garbage">>
    /\ lastRead.result = EmptyDict

----------------------------------------------------------------------------
(* Camera claims: locking and concurrent streams *)

\* The positions of a stream inside its frame loop (lines 603-621).
InLoop(t) == pc[t] \in {"l_lock", "l_chk", "l_read", "l_enc", "l_yield", "l_sleep"}

\* C13: a stream that is suspended at the yield of a frame, or that is in its
\* inter-frame delay, does not hold camera_lock.
C13_LockOnlyForCapture ==
    \A t \in Threads : pc[t] \in {"l_yield", "l_sleep"} => camera_lock # t

\* C14: every step that changes the global handle is taken by the thread that
\* holds camera_lock, and the handle a stream is about to read from was not
\* released.
C14_HandleUnderLock ==
    /\ [][camera' # camera =>
            \E t \in Threads : camera_lock = t /\ pc'[t] # pc[t]]_vars
    /\ [](\A t \in Threads : (pc[t] = "l_read" /\ camera # None) => camera \in opened)

\* C18: a stream that is in its frame loop keeps the handle its own
\* init_camera built, with the device session open, whatever the other streams
\* do; it never leaves the loop because it found the handle None.
C18_StreamsIndependent ==
    \A t \in Threads :
        /\ InLoop(t) => (camera = myHandle[t] /\ camera \in opened)
        /\ endCause[t] # "no_handle"

----------------------------------------------------------------------------
(* Status snapshot claims: external storage *)

\* The entries of the scanned directories, in scan order: /media before /mnt,
\* the sub-directories of a root in listing order, the entries of a
\* sub-directory in listing order.
RECURSIVE EntriesOfUsers(_)
EntriesOfUsers(users) ==
    IF users = <<>> THEN <<>>
    ELSE (IF Head(users).isdir THEN Head(users).entries ELSE <<>>)
            \o EntriesOfUsers(Tail(users))
RECURSIVE EntriesInScanOrder(_)
EntriesInScanOrder(roots) ==
    IF roots = <<>> THEN <<>>
    ELSE (IF Head(roots).exists THEN EntriesOfUsers(Head(roots).users) ELSE <<>>)
            \o EntriesInScanOrder(Tail(roots))
MountsInScanOrder(roots) ==
    SelectSeq(EntriesInScanOrder(roots), LAMBDA e : e.ismount)

\* C17: a storage probe that completed reports the first mount point of the
\* scan order, with its total and used bytes, when there is one, and reports
\* no external storage with zero totals when there is none.
C17_FirstMountReported ==
    ("storage" \in DOMAIN probeIn /\ ~Fails("storage", probeIn["storage"])) =>
        LET mounts == MountsInScanOrder(probeIn["storage"].roots)
        IN  IF mounts = <<>>
            THEN /\ ~storage_info.externalConnected
                 /\ storage_info.externalTotal = 0
                 /\ storage_info.externalUsed = 0
            ELSE /\ storage_info.externalConnected
                 /\ storage_info.externalTotal = mounts[1].blocks * mounts[1].bsize
                 /\ storage_info.externalUsed =
                        mounts[1].blocks * mounts[1].bsize - mounts[1].bfree * mounts[1].bsize

\* C15: while the power probe is blocked in its bus query the request is not
\* stalled: system_status can take its next step (the storage probe can run),
\* on the way to returning a snapshot with the power fallback.
C15_BlockedProbeDoesNotStall ==
    stPc = "power_blocked" => ENABLED StNext

----------------------------------------------------------------------------
(* Process runner and handler claims *)

\* C11: run_script returns a pair whose first component is false exactly when
\* the subprocess could not be launched or exited non-zero; the second is the
\* captured stdout on success and the captured stderr, or the text of the
\* exception, on failure; the script was executed once, or not at all when it
\* could not be launched.
C11_RunScriptContract ==
    lastRun.called =>
        LET o == lastRun.outcome
            r == lastRun.result
        IN  /\ r.succeeded \in BOOLEAN
            /\ ~r.succeeded <=> (~o.launched \/ o.returncode # 0)
            /\ r.succeeded => r.output = o.stdout
            /\ ~r.succeeded => r.output \in {o.stderr, o.error, DecodeError}
            /\ r.executions = IF o.launched THEN 1 ELSE 0

\* C12: a handler that answered status success had no failing write_csv_settings,
\* write_control_values or run_script during its request.
C12_FailuresSurfaced ==
    (reply.handler # "none" /\ reply.status = "success") => reply.failed = {}

\* The lights_on value a read of the control file gives.
LightsOnFile == Get(read_control_values(ctlFile), <<"lights_on">>, <<"absent">>)

\* C19: of two consecutive toggle_lights responses the second lightsOn is the
\* negation of the first, and after a toggle_lights response the lights_on value
\* read from the control file is the lightsOn value of the response.
C19_ToggleAlternates ==
    lastToggle.cur # "none" =>
        /\ lastToggle.prev # "none" => lastToggle.cur # lastToggle.prev
        /\ LightsOnFile = (IF lastToggle.cur = "on" THEN <<"true">> ELSE <<"false">>)

----------------------------------------------------------------------------
(* Concurrent writers claim *)

Finished(t) == writers[t].pc = "done" /\ writers[t].ok
FileOf(fmt) == IF fmt = "ctl" THEN ctlFile ELSE csvFile
\* The file a writer leaves when it runs alone on the file it read.
AloneResult(t) ==
    IF writers[t].fmt = "ctl"
    THEN write_control_values(writers[t].readFrom, writers[t].upd).text
    ELSE write_csv_settings(writers[t].readFrom, writers[t].upd).rows

\* C16: when two writes of the same file, and no other, have both read the same
\* content and both returned success, the file is what one of them alone would
\* have left: the update of the other is not in it.
C16_LostUpdate ==
    \A t, u \in Threads :
        (/\ t # u /\ nOps = 2
         /\ Finished(t) /\ Finished(u)
         /\ writers[t].fmt = writers[u].fmt
         /\ writers[t].readFrom = writers[u].readFrom)
            => FileOf(writers[t].fmt) \in {AloneResult(t), AloneResult(u)}

\* Two writes of the CSV file, one of `interval` and one of `runtime`, both
\* existing rows, both returned success, and the file has the new runtime and
\* the old interval.
C16_Witness ==
    \E t, u \in Threads :
        /\ t # u
        /\ Finished(t) /\ Finished(u)
        /\ writers[t].fmt = "csv" /\ writers[u].fmt = "csv"
        /\ writers[t].upd = [k \in {"interval"} |-> "60"]
        /\ writers[u].upd = [k \in {"runtime"} |-> "9"]
        /\ csvFile = << <<"SETTING", "VALUE">>, <<"interval", "30">>, <<"runtime", "9">> >>

====
